---- MODULE Spec2Model ----
(***************************************************************************)
(* The post routes of src/routes/posts.js as a state machine.              *)
(*                                                                         *)
(* Spec      one post document under concurrent requests.  Every route     *)
(*           handler is cut at its awaits: the step that runs up to and    *)
(*           including the first store call (findById), and the step that  *)
(*           runs the second store call (save / findByIdAndUpdate /        *)
(*           findByIdAndDelete) and answers.  Between the two steps of one *)
(*           request any step of another request may run.                  *)
(* SpecList  the collection as GET / sees it: find().sort().skip().limit() *)
(*           followed by countDocuments(), with the query parameters       *)
(*           parsed as the handler parses them.  A run creates posts and   *)
(*           serves one GET /, posts being created also between its two    *)
(*           store calls; it ends with the response.                       *)
(*                                                                         *)
(* post.save() is Mongoose's save of a loaded document: an updateOne       *)
(* filtered by _id that carries only the paths modified in memory          *)
(* (views: $set, likes.push / comments.push: $push, likes.splice: $set of  *)
(* the whole in-memory array, comment.remove(): $pull by _id).  It is      *)
(* never an upsert.  When the schema keeps its version key, an array       *)
(* $set is filtered by the version read and every array change increments  *)
(* the version.                                                            *)
(***************************************************************************)
EXTENDS Integers, Sequences, FiniteSets, TLC

VARIABLES
    load,        \* the workload of this run: the routes served, whether calls fail
    post,        \* the stored post document (exists = FALSE: no such document)
    created,     \* the tracked post id has been issued by POST /
    versionKey,  \* schema option: the document carries a version key (__v)
    nextCid,     \* number of comment ids generated so far
    pc,          \* per request slot: "idle", "found" (between the awaits), "done"
    req,         \* per request slot: the request being handled
    doc,         \* per request slot: the in-memory document findById returned
    resp,        \* per request slot: the response sent
    ov,          \* per request slot: like requests in flight together with this one
    deletedOk,   \* a DELETE /:id has answered success
    run,         \* the current uninterrupted run of like requests of one user
    coll,        \* SpecList: the posts collection, in creation order
    lpc,         \* SpecList: position of the GET / handler
    lreq,        \* SpecList: its query parameters
    lfound,      \* SpecList: the result of find()
    lresp        \* SpecList: the response sent

docVars  == <<load, post, created, versionKey, nextCid, pc, req, doc, resp, ov, deletedOk, run>>
listVars == <<coll, lpc, lreq, lfound, lresp>>
vars     == <<docVars, listVars>>

(***************************************************************************)
(* Bounds                                                                  *)
(***************************************************************************)
MaxViews    == 2
MaxLikes    == 2
MaxComments == 3
MaxVersion  == 3
MaxPosts    == 12
MaxDrafts   == 1

Procs == {"r1", "r2"}
Users == {"ann", "bob", "root"}
\* who writes posts, who likes, who comments
Authors    == {"ann"}
Likers     == {"ann", "bob"}
Commenters == {"bob"}

(***************************************************************************)
(* Workloads.  A run serves POST / and the routes of its workload: either  *)
(* DELETE /:id and one other route family on two concurrent request slots  *)
(* with every store call succeeding and every id well-formed, or one       *)
(* family on one slot with ids that do not cast and store calls that fail. *)
(***************************************************************************)
Families == {"get", "put", "delete", "like", "comments", "list"}

Workloads ==
    {[routes |-> {"delete", f}, faults |-> FALSE, slots |-> Procs] :
         f \in Families \ {"delete"}}
    \cup {[routes |-> {f}, faults |-> TRUE, slots |-> {"r1"}] : f \in Families}

\* slot p serves route family f in this run
Serves(p, f) == p \in load.slots /\ f \in load.routes

\* ids that do not cast (~ok) and failing store calls only under load.faults
Allowed(ok, fail) == load.faults \/ (ok /\ ~fail)

role(u) == IF u = "root" THEN "admin" ELSE "user"

(***************************************************************************)
(* Strings are sequences of one-character strings.                         *)
(***************************************************************************)
RECURSIVE splitAcc(_, _, _)
splitAcc(s, cur, acc) ==
    IF s = <<>> THEN Append(acc, cur)
    ELSE IF Head(s) = "," THEN splitAcc(Tail(s), <<>>, Append(acc, cur))
    ELSE splitAcc(Tail(s), Append(cur, Head(s)), acc)

split(s) == splitAcc(s, <<>>, <<>>)

RECURSIVE trimLeft(_)
trimLeft(s) == IF s # <<>> /\ Head(s) = " " THEN trimLeft(Tail(s)) ELSE s

RECURSIVE trimRight(_)
trimRight(s) ==
    IF s # <<>> /\ s[Len(s)] = " " THEN trimRight(SubSeq(s, 1, Len(s) - 1)) ELSE s

trim(s) == trimRight(trimLeft(s))

\* tags.split(',').map(tag => tag.trim())
splitTags(s) == [i \in 1..Len(split(s)) |-> trim(split(s)[i])]

\* JavaScript truthiness of body.tags: undefined and "" are falsy
truthy(t) == t.given /\ t.text # <<>>

Undefined == [given |-> FALSE, text |-> <<>>]
Text(s)   == [given |-> TRUE, text |-> s]

\* body.tags of POST / and of PUT /:id
CreateTags == {Text(<<"b", ",", " ", "a">>)}
BodyTags   == {Undefined, Text(<<>>), Text(<<"a">>)}

(***************************************************************************)
(* Documents                                                               *)
(***************************************************************************)
NoPost == [exists |-> FALSE, author |-> "", tags |-> <<>>, views |-> 0,
           likes |-> <<>>, comments |-> <<>>, v |-> 0]

\* new Post({..., tags, author: req.user._id}) with the schema defaults
newPost(u, t) ==
    [exists |-> TRUE, author |-> u,
     tags |-> IF truthy(t) THEN splitTags(t.text) ELSE <<>>,
     views |-> 0, likes |-> <<>>, comments |-> <<>>, v |-> 0]

RemoveAt(s, i) == SubSeq(s, 1, i - 1) \o SubSeq(s, i + 1, Len(s))

\* post.likes.findIndex(like => like.user === req.user._id); 0 stands for -1
likeIndex(d, u) ==
    IF \E i \in 1..Len(d.likes) : d.likes[i].user = u
    THEN CHOOSE i \in 1..Len(d.likes) :
             /\ d.likes[i].user = u
             /\ \A j \in 1..(i - 1) : d.likes[j].user # u
    ELSE 0

\* post.comments.id(commentId): the subdocument, or no such comment
hasComment(d, cid) == \E i \in 1..Len(d.comments) : d.comments[i].id = cid
commentById(d, cid) ==
    d.comments[CHOOSE i \in 1..Len(d.comments) : d.comments[i].id = cid]

\* the comparison of the author turned around
postForbiddenInverted(d, u) == d.author = u /\ role(u) # "admin"

\* post.author !== req.user._id && req.user.role !== 'admin'
postForbidden(d, u) == d.author # u /\ role(u) # "admin"

\* comment.user !== req.user._id && req.user.role !== 'admin'
commentForbidden(c, u) == c.user # u /\ role(u) # "admin"

(***************************************************************************)
(* The store's updateOne, as post.save() issues it.  Each operator gives   *)
(* [st |-> the stored document afterwards, err |-> the error thrown].      *)
(***************************************************************************)
bump(st) == IF versionKey THEN st.v + 1 ELSE st.v

\* a save that writes the document back whether or not it is still stored
saveByIdUpsert(st, new) == [st |-> [new EXCEPT !.exists = TRUE], err |-> "none"]

\* a save whose filter carries only _id
saveById(st, new) ==
    IF st.exists THEN [st |-> new, err |-> "none"]
    ELSE [st |-> st, err |-> "DocumentNotFoundError"]

\* a save whose filter also carries the version read (array $set)
saveByVersion(st, d, new) ==
    IF st.exists /\ (~versionKey \/ st.v = d.v) THEN [st |-> new, err |-> "none"]
    ELSE IF versionKey THEN [st |-> st, err |-> "VersionError"]
    ELSE [st |-> st, err |-> "DocumentNotFoundError"]

\* post.views += 1; post.save()  ->  $set views
saveViews(st, d) == saveById(st, [st EXCEPT !.views = d.views + 1])

\* post.likes.push({user}); post.save()  ->  $push likes, $inc __v
saveLikePush(st, u) ==
    saveById(st, [st EXCEPT !.likes = Append(st.likes, [user |-> u]), !.v = bump(st)])

\* post.likes.splice(likeIndex, 1); post.save()  ->  $set likes, version checked
saveLikeSplice(st, d, i) ==
    saveByVersion(st, d, [st EXCEPT !.likes = RemoveAt(d.likes, i), !.v = bump(st)])

\* post.comments.push(newComment); post.save()  ->  $push comments, $inc __v
saveCommentPush(st, c) ==
    saveById(st, [st EXCEPT !.comments = Append(st.comments, c), !.v = bump(st)])

\* a pull that matches the comment's user instead of its _id
saveCommentPullByUser(st, cid) ==
    saveById(st, [st EXCEPT
        !.comments = SelectSeq(st.comments, LAMBDA c :
                         ~\E i \in 1..Len(st.comments) :
                             st.comments[i].id = cid /\ st.comments[i].user = c.user),
        !.v = bump(st)])

\* comment.remove(); post.save()  ->  $pull comments {_id}, $inc __v
saveCommentPull(st, cid) ==
    saveById(st, [st EXCEPT !.comments = SelectSeq(st.comments, LAMBDA c : c.id # cid),
                            !.v = bump(st)])

\* Post.findByIdAndUpdate(id, {..., tags: tags ? split : post.tags, ...})
findByIdAndUpdate(st, d, t) ==
    IF st.exists
    THEN [st EXCEPT !.tags = IF truthy(t) THEN splitTags(t.text) ELSE d.tags]
    ELSE st

\* Post.findByIdAndDelete(id)
findByIdAndDelete(st) == NoPost

(***************************************************************************)
(* Requests and responses                                                  *)
(***************************************************************************)
NoReq == [route |-> "none", user |-> "", idOk |-> TRUE, tags |-> Undefined, cid |-> 0]

Request(rt, u, ok, t, c) == [route |-> rt, user |-> u, idOk |-> ok, tags |-> t, cid |-> c]

\* items: the post ids a list response carries, or the comment id a comment
\* response carries
NoResp == [status |-> 0, err |-> "none", likes |-> 0, isLiked |-> FALSE, items |-> <<>>,
           total |-> 0]

Reply(st, e) == [NoResp EXCEPT !.status = st, !.err = e]

\* the status each handler's catch block answers with
catchStatus(rt) == IF rt \in {"create", "put", "comment"} THEN 400 ELSE 500

\* what the first store call throws: a CastError for an id that does not cast,
\* the store's own failure otherwise
thrown(r, fail) == IF ~r.idOk THEN "CastError" ELSE IF fail THEN "StoreError" ELSE "none"

Idle(p) == pc[p] \in {"idle", "done"}

\* the handler answers: res.json / res.status().json
Answer(p, r, rs) ==
    /\ pc'   = [pc EXCEPT ![p] = "done"]
    /\ req'  = [req EXCEPT ![p] = r]
    /\ resp' = [resp EXCEPT ![p] = rs]
    /\ doc'  = [doc EXCEPT ![p] = NoPost]

\* the fields of the in-memory document a handler still reads after findById
\* returned it; the others are left at their defaults
keep(rt, d) ==
    [NoPost EXCEPT
        !.exists = d.exists,
        !.views  = IF rt = "get" THEN d.views ELSE 0,
        !.tags   = IF rt = "put" THEN d.tags ELSE <<>>,
        !.likes  = IF rt = "like" THEN d.likes ELSE <<>>,
        !.v      = IF rt = "like" THEN d.v ELSE 0]

\* the handler holds the document findById returned and awaits its next call
Hold(p, r, d) ==
    /\ pc'   = [pc EXCEPT ![p] = "found"]
    /\ req'  = [req EXCEPT ![p] = r]
    /\ resp' = [resp EXCEPT ![p] = NoResp]
    /\ doc'  = [doc EXCEPT ![p] = keep(r.route, d)]

ClearOv(p) == ov' = [ov EXCEPT ![p] = {}]

\* the like requests that are between their findById and their save
LikesInFlight == {q \in Procs : pc[q] = "found" /\ req[q].route = "like"}

(***************************************************************************)
(* The run of like requests of one user that no other step interrupts:     *)
(* n = 1 after the first findById, 2 after the first save answered 200,    *)
(* 3 and 4 likewise for the second request; before: likes at the start.    *)
(***************************************************************************)
NoRun == [proc |-> "", user |-> "", before |-> <<>>, n |-> 0]

nextRun(p) ==
    IF req'[p].route = "like" /\ pc[p] # "found" /\ pc'[p] = "found"
    THEN IF run.n = 2 /\ run.user = req'[p].user
         THEN [run EXCEPT !.proc = p, !.n = 3]
         ELSE [proc |-> p, user |-> req'[p].user, before |-> post.likes, n |-> 1]
    ELSE IF /\ req'[p].route = "like" /\ pc[p] = "found" /\ pc'[p] = "done"
            /\ resp'[p].status = 200 /\ run.proc = p /\ run.n \in {1, 3}
    THEN [run EXCEPT !.n = @ + 1]
    ELSE NoRun

(***************************************************************************)
(* POST /  (lines 91-122)                                                  *)
(***************************************************************************)
CreatePost(p, u, t, fail) ==
    /\ Idle(p)
    /\ p \in load.slots /\ Allowed(TRUE, fail)
    /\ ~created
    /\ LET r == Request("create", u, TRUE, t, 0) IN
       IF fail
       THEN /\ Answer(p, r, Reply(catchStatus("create"), "StoreError"))
            /\ UNCHANGED <<post, created>>
       ELSE /\ post' = newPost(u, t)
            /\ created' = TRUE
            /\ Answer(p, r, Reply(201, "none"))
    /\ UNCHANGED <<load, versionKey, nextCid, deletedOk, listVars>>
    /\ run' = NoRun
    /\ ClearOv(p)

(***************************************************************************)
(* GET /:id  (lines 56-86)                                                 *)
(***************************************************************************)
GetFind(p, ok, fail) ==
    /\ Idle(p)
    /\ Serves(p, "get") /\ Allowed(ok, fail)
    /\ post.views < MaxViews
    /\ LET r == Request("get", "", ok, Undefined, 0) IN
       IF thrown(r, fail) # "none"
       THEN Answer(p, r, Reply(catchStatus("get"), thrown(r, fail)))
       ELSE IF ~post.exists
       THEN Answer(p, r, Reply(404, "none"))
       ELSE Hold(p, r, post)
    /\ UNCHANGED <<load, post, created, versionKey, nextCid, deletedOk, listVars>>
    /\ run' = NoRun
    /\ ClearOv(p)

GetSave(p, fail) ==
    /\ pc[p] = "found" /\ req[p].route = "get"
    /\ Allowed(TRUE, fail)
    /\ LET out == saveViews(post, doc[p]) IN
       IF fail
       THEN /\ Answer(p, req[p], Reply(catchStatus("get"), "StoreError"))
            /\ UNCHANGED post
       ELSE /\ post' = out.st
            /\ Answer(p, req[p],
                      IF out.err = "none" THEN Reply(200, "none")
                      ELSE Reply(catchStatus("get"), out.err))
    /\ UNCHANGED <<load, created, versionKey, nextCid, ov, deletedOk, listVars>>
    /\ run' = NoRun

(***************************************************************************)
(* PUT /:id  (lines 127-175)                                               *)
(***************************************************************************)
PutFind(p, u, ok, t, fail) ==
    /\ Idle(p)
    /\ Serves(p, "put") /\ Allowed(ok, fail)
    /\ LET r == Request("put", u, ok, t, 0) IN
       IF thrown(r, fail) # "none"
       THEN Answer(p, r, Reply(catchStatus("put"), thrown(r, fail)))
       ELSE IF ~post.exists
       THEN Answer(p, r, Reply(404, "none"))
       ELSE IF postForbidden(post, u)
       THEN Answer(p, r, Reply(403, "none"))
       ELSE Hold(p, r, post)
    /\ UNCHANGED <<load, post, created, versionKey, nextCid, deletedOk, listVars>>
    /\ run' = NoRun
    /\ ClearOv(p)

PutUpdate(p, fail) ==
    /\ pc[p] = "found" /\ req[p].route = "put"
    /\ Allowed(TRUE, fail)
    /\ IF fail
       THEN /\ Answer(p, req[p], Reply(catchStatus("put"), "StoreError"))
            /\ UNCHANGED post
       ELSE /\ post' = findByIdAndUpdate(post, doc[p], req[p].tags)
            /\ Answer(p, req[p], Reply(200, "none"))
    /\ UNCHANGED <<load, created, versionKey, nextCid, ov, deletedOk, listVars>>
    /\ run' = NoRun

(***************************************************************************)
(* DELETE /:id  (lines 180-211)                                            *)
(***************************************************************************)
DeleteFind(p, u, ok, fail) ==
    /\ Idle(p)
    /\ Serves(p, "delete") /\ Allowed(ok, fail)
    /\ LET r == Request("delete", u, ok, Undefined, 0) IN
       IF thrown(r, fail) # "none"
       THEN Answer(p, r, Reply(catchStatus("delete"), thrown(r, fail)))
       ELSE IF ~post.exists
       THEN Answer(p, r, Reply(404, "none"))
       ELSE IF postForbidden(post, u)
       THEN Answer(p, r, Reply(403, "none"))
       ELSE Hold(p, r, post)
    /\ UNCHANGED <<load, post, created, versionKey, nextCid, deletedOk, listVars>>
    /\ run' = NoRun
    /\ ClearOv(p)

DeleteRemove(p, fail) ==
    /\ pc[p] = "found" /\ req[p].route = "delete"
    /\ Allowed(TRUE, fail)
    /\ IF fail
       THEN /\ Answer(p, req[p], Reply(catchStatus("delete"), "StoreError"))
            /\ UNCHANGED <<post, deletedOk>>
       ELSE /\ post' = findByIdAndDelete(post)
            /\ deletedOk' = TRUE
            /\ Answer(p, req[p], Reply(200, "none"))
    /\ UNCHANGED <<load, created, versionKey, nextCid, ov, listVars>>
    /\ run' = NoRun

(***************************************************************************)
(* POST /:id/like  (lines 216-255)                                         *)
(***************************************************************************)
LikeFind(p, u, ok, fail) ==
    /\ Idle(p)
    /\ Serves(p, "like") /\ Allowed(ok, fail)
    /\ Len(post.likes) < MaxLikes \/ likeIndex(post, u) > 0
    /\ post.v < MaxVersion
    /\ LET r == Request("like", u, ok, Undefined, 0) IN
       IF thrown(r, fail) # "none"
       THEN /\ Answer(p, r, Reply(catchStatus("like"), thrown(r, fail)))
            /\ ov' = [ov EXCEPT ![p] = {}]
       ELSE IF ~post.exists
       THEN /\ Answer(p, r, Reply(404, "none"))
            /\ ov' = [ov EXCEPT ![p] = {}]
       ELSE /\ Hold(p, r, post)
            /\ ov' = [q \in Procs |->
                        IF q = p THEN LikesInFlight \ {p}
                        ELSE IF q \in LikesInFlight THEN ov[q] \cup {p}
                        ELSE ov[q]]
    /\ UNCHANGED <<load, post, created, versionKey, nextCid, deletedOk, listVars>>
    /\ run' = nextRun(p)

LikeSave(p, fail) ==
    /\ pc[p] = "found" /\ req[p].route = "like"
    /\ Allowed(TRUE, fail)
    /\ LET u    == req[p].user
           i    == likeIndex(doc[p], u)
           out  == IF i > 0 THEN saveLikeSplice(post, doc[p], i)
                   ELSE saveLikePush(post, u)
           \* post.likes.length of the in-memory document after the toggle
           n    == IF i > 0 THEN Len(doc[p].likes) - 1 ELSE Len(doc[p].likes) + 1
       IN
       IF fail
       THEN /\ Answer(p, req[p], Reply(catchStatus("like"), "StoreError"))
            /\ UNCHANGED post
       ELSE /\ post' = out.st
            /\ Answer(p, req[p],
                      IF out.err = "none"
                      THEN [Reply(200, "none") EXCEPT !.likes = n, !.isLiked = (i = 0)]
                      ELSE Reply(catchStatus("like"), out.err))
    /\ UNCHANGED <<load, created, versionKey, nextCid, ov, deletedOk, listVars>>
    /\ run' = nextRun(p)

(***************************************************************************)
(* POST /:id/comment  (lines 260-295)                                      *)
(***************************************************************************)
CommentFind(p, u, ok, fail) ==
    /\ Idle(p)
    /\ Serves(p, "comments") /\ Allowed(ok, fail)
    /\ nextCid < MaxComments
    /\ post.v < MaxVersion
    /\ LET r == Request("comment", u, ok, Undefined, nextCid + 1) IN
       IF thrown(r, fail) # "none"
       THEN /\ Answer(p, [r EXCEPT !.cid = 0], Reply(catchStatus("comment"), thrown(r, fail)))
            /\ UNCHANGED nextCid
       ELSE IF ~post.exists
       THEN /\ Answer(p, [r EXCEPT !.cid = 0], Reply(404, "none"))
            /\ UNCHANGED nextCid
       ELSE \* post.comments.push(newComment) gives the subdocument its _id
            /\ Hold(p, r, post)
            /\ nextCid' = nextCid + 1
    /\ UNCHANGED <<load, post, created, versionKey, deletedOk, listVars>>
    /\ run' = NoRun
    /\ ClearOv(p)

\* fail: "none", "save" (post.save() fails) or "populate" (post.populate() fails)
CommentSave(p, fail) ==
    /\ pc[p] = "found" /\ req[p].route = "comment"
    /\ Allowed(TRUE, fail # "none")
    /\ LET c   == [id |-> req[p].cid, user |-> req[p].user]
           out == saveCommentPush(post, c)
       IN
       IF fail = "save"
       THEN /\ Answer(p, req[p], Reply(catchStatus("comment"), "StoreError"))
            /\ UNCHANGED post
       ELSE /\ post' = out.st
            /\ Answer(p, req[p],
                      IF out.err # "none" THEN Reply(catchStatus("comment"), out.err)
                      ELSE IF fail = "populate"
                      THEN Reply(catchStatus("comment"), "StoreError")
                      ELSE [Reply(201, "none") EXCEPT !.items = <<c.id>>])
    /\ UNCHANGED <<load, created, versionKey, nextCid, ov, deletedOk, listVars>>
    /\ run' = NoRun

(***************************************************************************)
(* DELETE /:id/comment/:commentId  (lines 300-341)                         *)
(***************************************************************************)
UncommentFind(p, u, ok, cid, fail) ==
    /\ Idle(p)
    /\ Serves(p, "comments") /\ Allowed(ok, fail)
    /\ post.v < MaxVersion
    /\ LET r == Request("uncomment", u, ok, Undefined, cid) IN
       IF thrown(r, fail) # "none"
       THEN Answer(p, r, Reply(catchStatus("uncomment"), thrown(r, fail)))
       ELSE IF ~post.exists
       THEN Answer(p, r, Reply(404, "none"))
       ELSE IF ~hasComment(post, cid)
       THEN Answer(p, r, Reply(404, "none"))
       ELSE IF commentForbidden(commentById(post, cid), u)
       THEN Answer(p, r, Reply(403, "none"))
       ELSE Hold(p, r, post)
    /\ UNCHANGED <<load, post, created, versionKey, nextCid, deletedOk, listVars>>
    /\ run' = NoRun
    /\ ClearOv(p)

UncommentSave(p, fail) ==
    /\ pc[p] = "found" /\ req[p].route = "uncomment"
    /\ Allowed(TRUE, fail)
    /\ LET out == saveCommentPull(post, req[p].cid) IN
       IF fail
       THEN /\ Answer(p, req[p], Reply(catchStatus("uncomment"), "StoreError"))
            /\ UNCHANGED post
       ELSE /\ post' = out.st
            /\ Answer(p, req[p],
                      IF out.err = "none" THEN Reply(200, "none")
                      ELSE Reply(catchStatus("uncomment"), out.err))
    /\ UNCHANGED <<load, created, versionKey, nextCid, ov, deletedOk, listVars>>
    /\ run' = NoRun

(***************************************************************************)
(* GET /  (lines 10-51), as far as the tracked post is concerned: find()   *)
(* returns it when it is stored and matches the query, countDocuments()    *)
(* counts it likewise.  match: whether the post's title, status, category  *)
(* and the other fields not tracked here satisfy the query.                *)
(***************************************************************************)
ListFind(p, match, fail) ==
    /\ Idle(p)
    /\ Serves(p, "list") /\ Allowed(TRUE, fail)
    /\ LET r == Request("list", "", TRUE, Undefined, 0) IN
       IF fail
       THEN Answer(p, r, Reply(catchStatus("list"), "StoreError"))
       ELSE Hold(p, r, IF post.exists /\ match THEN post ELSE NoPost)
    /\ ClearOv(p)
    /\ UNCHANGED <<load, post, created, versionKey, nextCid, deletedOk, listVars>>
    /\ run' = NoRun

ListCount(p, match, fail) ==
    /\ pc[p] = "found" /\ req[p].route = "list"
    /\ Allowed(TRUE, fail)
    /\ IF fail
       THEN Answer(p, req[p], Reply(catchStatus("list"), "StoreError"))
       ELSE Answer(p, req[p],
                   [Reply(200, "none") EXCEPT
                       !.items = IF doc[p].exists THEN <<1>> ELSE <<>>,
                       !.total = IF post.exists /\ match THEN 1 ELSE 0])
    /\ UNCHANGED <<load, post, created, versionKey, nextCid, ov, deletedOk, listVars>>
    /\ run' = NoRun

(***************************************************************************)
(* Spec                                                                    *)
(***************************************************************************)
InitList ==
    /\ coll = <<>>
    /\ lpc = "idle"
    /\ lreq = [page |-> Undefined, limit |-> Undefined, status |-> Undefined]
    /\ lfound = [err |-> "none", posts |-> <<>>, seen |-> 0]
    /\ lresp = [status |-> 0, posts |-> <<>>, current |-> 0, pages |-> 0, total |-> 0]

Init ==
    /\ load \in Workloads
    /\ post = NoPost
    /\ created = FALSE
    /\ versionKey \in BOOLEAN
    /\ nextCid = 0
    /\ pc = [p \in Procs |-> "idle"]
    /\ req = [p \in Procs |-> NoReq]
    /\ doc = [p \in Procs |-> NoPost]
    /\ resp = [p \in Procs |-> NoResp]
    /\ ov = [p \in Procs |-> {}]
    /\ deletedOk = FALSE
    /\ run = NoRun
    /\ InitList

Step(p) ==
    \/ \E u \in Authors, t \in CreateTags, fail \in BOOLEAN : CreatePost(p, u, t, fail)
    \/ \E ok \in BOOLEAN, fail \in BOOLEAN : GetFind(p, ok, fail)
    \/ \E fail \in BOOLEAN : GetSave(p, fail)
    \/ \E u \in Users, ok \in BOOLEAN, t \in BodyTags, fail \in BOOLEAN :
           PutFind(p, u, ok, t, fail)
    \/ \E fail \in BOOLEAN : PutUpdate(p, fail)
    \/ \E u \in Users, ok \in BOOLEAN, fail \in BOOLEAN : DeleteFind(p, u, ok, fail)
    \/ \E fail \in BOOLEAN : DeleteRemove(p, fail)
    \/ \E u \in Likers, ok \in BOOLEAN, fail \in BOOLEAN : LikeFind(p, u, ok, fail)
    \/ \E fail \in BOOLEAN : LikeSave(p, fail)
    \/ \E u \in Commenters, ok \in BOOLEAN, fail \in BOOLEAN : CommentFind(p, u, ok, fail)
    \/ \E fail \in {"none", "save", "populate"} : CommentSave(p, fail)
    \/ \E u \in Users, ok \in BOOLEAN, cid \in 1..MaxComments, fail \in BOOLEAN :
           UncommentFind(p, u, ok, cid, fail)
    \/ \E fail \in BOOLEAN : UncommentSave(p, fail)
    \/ \E match \in BOOLEAN, fail \in BOOLEAN : ListFind(p, match, fail)
    \/ \E match \in BOOLEAN, fail \in BOOLEAN : ListCount(p, match, fail)

Next == \E p \in Procs : Step(p)

Spec == Init /\ [][Next]_vars

(***************************************************************************)
(* Vocabulary of the properties                                            *)
(***************************************************************************)
\* the step is one of request slot p
Acts(p) == <<pc[p], req[p], doc[p], resp[p]>> # <<pc'[p], req'[p], doc'[p], resp'[p]>>

\* the step runs handler rt of slot p up to its first store call
Enters(p, rt) == Acts(p) /\ pc[p] # "found" /\ req'[p].route = rt

\* the step runs the second store call of handler rt of slot p and answers
Finishes(p, rt) == pc[p] = "found" /\ req[p].route = rt /\ pc'[p] = "done"

Likes(d, u) == \E i \in 1..Len(d.likes) : d.likes[i].user = u

IsAdmin(u) == u = "root"

(***************************************************************************)
(* C1: in every reachable state a post's likes holds at most one entry per *)
(* user.                                                                   *)
(***************************************************************************)
C1_LikesUniquePerUser ==
    post.exists =>
        \A i, j \in 1..Len(post.likes) : i # j => post.likes[i].user # post.likes[j].user

(***************************************************************************)
(* C2: every GET /:id that answers 200 raises the stored views by exactly  *)
(* 1, so when it is the second of two completed fetches views is at least  *)
(* 2.                                                                      *)
(***************************************************************************)
C2_FetchAddsOneView ==
    [][\A p \in Procs :
          (Finishes(p, "get") /\ resp'[p].status = 200) =>
              /\ post'.views = post.views + 1
              /\ \A q \in Procs \ {p} :
                     (pc[q] = "done" /\ req[q].route = "get" /\ resp[q].status = 200)
                         => post'.views >= 2]_vars

(***************************************************************************)
(* C3: two consecutive like requests of one user with no other step in     *)
(* between leave the like count and the user's membership as before, and   *)
(* each response reports the like count and the membership after its       *)
(* toggle.                                                                 *)
(***************************************************************************)
C3_LikeTwiceRestores ==
    /\ run.n \in {2, 4} =>
           /\ resp[run.proc].likes = Len(post.likes)
           /\ resp[run.proc].isLiked = Likes(post, run.user)
    /\ run.n = 4 =>
           /\ Len(post.likes) = Len(run.before)
           /\ Likes(post, run.user) = Likes([likes |-> run.before], run.user)

(***************************************************************************)
(* C4: a PUT or DELETE of a requester who is neither the author nor an     *)
(* admin is answered 403 and leaves the stored post as it is; whenever one *)
(* of the two operations changes the stored post the requester is the      *)
(* author or an admin.                                                     *)
(***************************************************************************)
C4_ForbiddenLeavesPost ==
    [][\A p \in Procs : \A rt \in {"put", "delete"} :
          /\ ( /\ Enters(p, rt) /\ resp'[p].err = "none" /\ post.exists
               /\ req'[p].user # post.author /\ ~IsAdmin(req'[p].user) )
                 => (pc'[p] = "done" /\ resp'[p].status = 403 /\ post' = post)
          /\ (Acts(p) /\ req'[p].route = rt /\ post' # post)
                 => (post.exists /\ (req'[p].user = post.author \/ IsAdmin(req'[p].user)))
      ]_vars

C4_Witness ==
    \E p \in Procs :
        /\ pc[p] = "done" /\ req[p].route = "delete" /\ resp[p].status = 403
        /\ post.exists /\ req[p].user = "bob"

(***************************************************************************)
(* C5: a PUT that answers 200 and whose body has no tags leaves the stored *)
(* tags as they are when the update is applied, and no PUT changes author, *)
(* views, likes or comments.                                               *)
(***************************************************************************)
C5_PutKeepsTags ==
    [][\A p \in Procs :
          (Finishes(p, "put") /\ resp'[p].status = 200) =>
              /\ post'.author = post.author /\ post'.views = post.views
              /\ post'.likes = post.likes /\ post'.comments = post.comments
              /\ (post.exists /\ (~req[p].tags.given \/ req[p].tags.text = <<>>))
                     => post'.tags = post.tags]_vars

(***************************************************************************)
(* C6: once a DELETE /:id has answered success the post is gone and stays  *)
(* gone, whatever a request that read it earlier saves afterwards: a GET   *)
(* that starts later answers 404, a list query that runs later does not    *)
(* return or count it, and a delete step leaves the document either whole  *)
(* or absent.                                                              *)
(***************************************************************************)
C6_DeletedStaysGone ==
    [][/\ deletedOk' => ~post'.exists
       /\ \A p \in Procs :
             /\ (deletedOk /\ Enters(p, "get") /\ resp'[p].err = "none")
                    => (pc'[p] = "done" /\ resp'[p].status = 404)
             /\ (deletedOk /\ Enters(p, "list") /\ pc'[p] = "found") => ~doc'[p].exists
             /\ (deletedOk /\ Finishes(p, "list") /\ resp'[p].status = 200)
                    => resp'[p].total = 0
             /\ (Finishes(p, "delete") /\ resp'[p].status = 200) => post' = NoPost
             /\ (Acts(p) /\ req'[p].route = "delete") => post' \in {post, NoPost}
      ]_vars

C6_Witness ==
    /\ deletedOk
    /\ \E p \in Procs :
           /\ pc[p] = "done" /\ resp[p].err \in {"DocumentNotFoundError", "VersionError"}
           /\ req[p].route \in {"get", "like", "comment", "uncomment"}
    /\ ~post.exists

(***************************************************************************)
(* C7: DELETE /:id/comment/:commentId answers 404 when the post or the     *)
(* comment does not exist and 403 when the requester is neither the        *)
(* comment's author nor an admin, leaving the comments as they are; when   *)
(* it answers 200 exactly the comment with that id is gone and the others  *)
(* keep their order.                                                       *)
(***************************************************************************)
Without(cs, cid) == SelectSeq(cs, LAMBDA c : c.id # cid)

C7_CommentDelete ==
    [][\A p \in Procs :
          /\ (Enters(p, "uncomment") /\ resp'[p].err = "none") =>
                 LET cid  == req'[p].cid
                     u    == req'[p].user
                     here == {i \in 1..Len(post.comments) : post.comments[i].id = cid}
                 IN  /\ post' = post
                     /\ (~post.exists \/ here = {})
                            => (pc'[p] = "done" /\ resp'[p].status = 404)
                     /\ (post.exists /\ here # {} /\ ~IsAdmin(u)
                            /\ \A i \in here : post.comments[i].user # u)
                            => (pc'[p] = "done" /\ resp'[p].status = 403)
          /\ Finishes(p, "uncomment") =>
                 IF resp'[p].status = 200
                 THEN post' = [post EXCEPT !.comments = Without(post.comments, req[p].cid),
                                           !.v = post'.v]
                 ELSE post' = post
      ]_vars

C7_Witness ==
    \E p \in Procs :
        /\ pc[p] = "done" /\ req[p].route = "uncomment" /\ resp[p].status = 200
        /\ Len(post.comments) >= 2
        /\ \A i \in 1..Len(post.comments) : post.comments[i].id # req[p].cid

(***************************************************************************)
(* C8: on every route that takes a post id, an id that does not cast is    *)
(* answered 400 and any other store failure 500, and the store is left as  *)
(* it is.                                                                  *)
(***************************************************************************)
IdRoutes == {"get", "put", "delete", "like", "comment", "uncomment"}

C8_ErrorStatus ==
    [][\A p \in Procs :
          (Acts(p) /\ pc'[p] = "done" /\ req'[p].route \in IdRoutes) =>
              /\ resp'[p].err = "CastError" => (resp'[p].status = 400 /\ post' = post)
              /\ resp'[p].err = "StoreError" => (resp'[p].status = 500 /\ post' = post)
      ]_vars

(***************************************************************************)
(* C10: when two like requests of different users overlap and both have    *)
(* completed, each user's membership in likes is the opposite of what it   *)
(* was before that user's toggle.                                          *)
(***************************************************************************)
C10_OverlappingLikesSafe ==
    [][\A p, q \in Procs :
          ( /\ p # q /\ req[p].user # req[q].user
            /\ pc[p] = "done" /\ req[p].route = "like" /\ resp[p].status = 200
            /\ Finishes(q, "like") /\ resp'[q].err # "StoreError"
            /\ q \in ov[p] /\ p \in ov[q]
            /\ post'.exists )
          => /\ Likes(post', req[p].user) = resp[p].isLiked
             /\ Likes(post', req[q].user) # Likes(doc[q], req[q].user)]_vars

(***************************************************************************)
(* GET /  (lines 10-51) over the collection                                *)
(***************************************************************************)
NaN    == [nan |-> TRUE, val |-> 0]
Num(n) == [nan |-> FALSE, val |-> n]

Digits == {"0", "1", "2", "3", "4", "5", "6", "7", "8", "9"}

digit(c) ==
    CASE c = "0" -> 0 [] c = "1" -> 1 [] c = "2" -> 2 [] c = "3" -> 3 [] c = "4" -> 4
      [] c = "5" -> 5 [] c = "6" -> 6 [] c = "7" -> 7 [] c = "8" -> 8 [] c = "9" -> 9

\* the value of the leading digits of s, given the value acc of those read so far
RECURSIVE leading(_, _)
leading(s, acc) ==
    IF s # <<>> /\ Head(s) \in Digits THEN leading(Tail(s), 10 * acc + digit(Head(s)))
    ELSE acc

\* parseInt: leading blanks skipped, an optional sign, then the digits up to the
\* first character that is none; NaN when there is no digit, or no parameter
parseInt(t) ==
    IF ~t.given THEN NaN
    ELSE LET s    == trimLeft(t.text)
             sign == IF s # <<>> /\ Head(s) = "-" THEN -1 ELSE 1
             body == IF s # <<>> /\ Head(s) \in {"-", "+"} THEN Tail(s) ELSE s
         IN  IF body = <<>> \/ Head(body) \notin Digits THEN NaN
             ELSE Num(sign * leading(body, 0))

\* x || d: NaN and 0 are falsy
orElse(x, d) == IF x.nan \/ x.val = 0 THEN d ELSE x.val

DefaultPage  == 1
DefaultLimit == 10

page(r)  == orElse(parseInt(r.page), DefaultPage)
limit(r) == orElse(parseInt(r.limit), DefaultLimit)
skip(r)  == (page(r) - 1) * limit(r)

\* const { status = 'published' } = req.query; if (status) query.status = status
matches(r, d) ==
    LET status == IF r.status.given THEN r.status.text ELSE "published"
    IN  status = "" \/ d.status = status

Reverse(s) == [i \in 1..Len(s) |-> s[Len(s) + 1 - i]]

\* Post.find(query).sort({createdAt: -1}) over the posts c, newest first
sorted(r, c) == Reverse(SelectSeq(c, LAMBDA d : matches(r, d)))

Min(a, b) == IF a < b THEN a ELSE b
Abs(n)    == IF n < 0 THEN -n ELSE n

\* .skip(skip).limit(limit): the store rejects a negative skip and reads a
\* negative limit as its absolute value
window(s, sk, lim) == SubSeq(s, sk + 1, Min(Len(s), sk + Abs(lim)))

find(r, c) ==
    IF skip(r) < 0 THEN [err |-> "BadValue", posts |-> <<>>, seen |-> Len(c)]
    ELSE [err |-> "none",
          posts |-> [i \in 1..Len(window(sorted(r, c), skip(r), limit(r))) |->
                        window(sorted(r, c), skip(r), limit(r))[i].id],
          seen |-> Len(c)]

\* Post.countDocuments(query)
countDocuments(r, c) == Len(sorted(r, c))

\* Math.ceil(a / b) for a >= 0 and b # 0
ceil(a, b) == IF b > 0 THEN (a + b - 1) \div b ELSE -(a \div (-b))

Drafts(c) == Len(SelectSeq(c, LAMBDA d : d.status = "draft"))

\* POST /: status: status || 'draft'; the creation time is the place in coll
NewPost(st) ==
    /\ lpc # "done"
    /\ Len(coll) < MaxPosts
    /\ LET status == IF st.given /\ st.text # "" THEN st.text ELSE "draft" IN
       /\ status = "draft" => Drafts(coll) < MaxDrafts
       /\ coll' = Append(coll, [id |-> Len(coll) + 1, status |-> status])
    /\ UNCHANGED <<lpc, lreq, lfound, lresp, docVars>>

GetPostsFind(pg, lm, st, fail) ==
    /\ lpc = "idle"
    /\ LET r == [page |-> pg, limit |-> lm, status |-> st]
           f == IF fail THEN [err |-> "StoreError", posts |-> <<>>, seen |-> Len(coll)]
                ELSE find(r, coll)
       IN
       /\ lreq' = r
       /\ lfound' = f
       /\ IF f.err # "none"
          THEN /\ lpc' = "done"
               /\ lresp' = [status |-> 500, posts |-> <<>>, current |-> 0, pages |-> 0,
                            total |-> 0]
          ELSE /\ lpc' = "found"
               /\ lresp' = [status |-> 0, posts |-> <<>>, current |-> 0, pages |-> 0,
                            total |-> 0]
    /\ UNCHANGED <<coll, docVars>>

GetPostsCount ==
    /\ lpc = "found"
    /\ LET total == countDocuments(lreq, coll) IN
       lresp' = [status |-> 200, posts |-> lfound.posts, current |-> page(lreq),
                 pages |-> ceil(total, limit(lreq)), total |-> total]
    /\ lpc' = "done"
    /\ UNCHANGED <<coll, lreq, lfound, docVars>>

\* req.query.page, req.query.limit, req.query.status
PageParams   == {Undefined, Text(<<"0">>), Text(<<"1">>), Text(<<"2">>), Text(<<"3">>),
                 Text(<<"-", "1">>), Text(<<"a">>)}
LimitParams  == {Undefined, Text(<<"5">>), Text(<<"0">>), Text(<<"-", "5">>),
                 Text(<<"5", "a">>)}
StatusParams == {Undefined, [given |-> TRUE, text |-> "draft"]}

InitL ==
    /\ Init
    /\ load = [routes |-> {"list"}, faults |-> TRUE, slots |-> {"r1"}]
    /\ versionKey

NextList ==
    \/ \E st \in {Undefined, [given |-> TRUE, text |-> "published"]} : NewPost(st)
    \/ \E pg \in PageParams, lm \in LimitParams, st \in StatusParams, fail \in BOOLEAN :
           GetPostsFind(pg, lm, st, fail)
    \/ GetPostsCount

SpecList == InitL /\ [][NextList]_vars

(***************************************************************************)
(* C9: GET / with page p and limit l answers with the posts at places      *)
(* (p-1)*l+1 .. p*l of the matching posts, newest first, with current = p, *)
(* total = the number of matching posts and pages = ceil(total / l); a     *)
(* page or limit that is missing, not a number or not >= 1 counts as 1     *)
(* resp. 10.                                                               *)
(***************************************************************************)
\* the parameter as the claim reads it
Meant(t, d) ==
    IF parseInt(t).nan \/ parseInt(t).val < 1 THEN d ELSE parseInt(t).val

C9_Pagination ==
    (lpc = "done" /\ lfound.err # "StoreError") =>
        LET p     == Meant(lreq.page, 1)
            l     == Meant(lreq.limit, 10)
            then  == sorted(lreq, SubSeq(coll, 1, lfound.seen))
            total == Len(sorted(lreq, coll))
            want  == SubSeq(then, (p - 1) * l + 1, Min(Len(then), p * l))
        IN  /\ lresp.status = 200
            /\ lresp.posts = [i \in 1..Len(want) |-> want[i].id]
            /\ lresp.current = p
            /\ lresp.total = total
            /\ lresp.pages = (total + l - 1) \div l

====
